---- MODULE Spec2Model ----
(***************************************************************************)
(* Model of the smart farming assistant: the SoilAnalysisAgent threshold   *)
(* classifier (agents/soil_agent.py), the ThingSpeak reading source        *)
(* (iot_integration/thingspeak_api.py) and the dashboard view              *)
(* (dashboard/views.py).                                                   *)
(*                                                                         *)
(* Numbers are held in tenths: the integer 149 stands for 14.9.  Every     *)
(* threshold of the program is a whole number, so every comparison the     *)
(* program makes is exact on this grid.                                    *)
(***************************************************************************)
EXTENDS Integers, Sequences, FiniteSets, TLC

(***************************************************************************)
(* State.                                                                  *)
(***************************************************************************)
VARIABLES
    ctorArg,      \* the argument of the last SoilAnalysisAgent(...) call
    ctorExc,      \* the exception that call raised, or "none"
    agent,        \* the instance that call produced, or NoAgent
    calls,        \* the number of analyze() calls on the instance
    firstResult,  \* what the first analyze() call returned
    lastResult,   \* what the latest analyze() call returned
    osEnviron,    \* the environment variables the request ran under
    netReply,     \* what requests.get() did during the request
    fetched,      \* the outcome of get_sensor_data() during the request
    rendered      \* the context dashboard_view rendered

(***************************************************************************)
(* Bounds of the model.                                                    *)
(***************************************************************************)
\* How many tenths below 0 and above 100 the constructor inputs reach.
Margin == 20
\* How many times analyze() is called on one instance.
MaxCalls == 3

\* A whole number n (a percentage, a temperature) in tenths.
Units(n) == n * 10

(***************************************************************************)
(* Python values.  Every value is a record tagged with its type.           *)
(***************************************************************************)
PyNone == [t |-> "NoneType"]
\* A list with its items, a string that is parsed (its characters) and a
\* string that is only carried (its text).
PyList(items) == [t |-> "list", items |-> items]
PyStr(s) == [t |-> "str", s |-> s]
Text(x) == [t |-> "text", text |-> x]
PyInt(n) == [t |-> "int", v |-> Units(n)]
PyBool(b) == [t |-> "bool", v |-> IF b THEN Units(1) ELSE 0]
PyFloat(v) == [t |-> "float", k |-> "fin", v |-> v]
PyNaN == [t |-> "float", k |-> "nan", v |-> 0]
PyInf == [t |-> "float", k |-> "inf", v |-> 0]
PyNegInf == [t |-> "float", k |-> "-inf", v |-> 0]

\* isinstance(x, (int, float)); bool is a subclass of int.
IsNumeric(x) == x.t \in {"int", "float", "bool"}
IsFinite(x) == x.t \in {"int", "bool"} \/ (x.t = "float" /\ x.k = "fin")

\* Python's comparisons of a number x with a whole-number literal c.
\* Every comparison with NaN is false.
PyLt(x, c) == IF IsFinite(x) THEN x.v < Units(c) ELSE x.k = "-inf"
PyGt(x, c) == IF IsFinite(x) THEN x.v > Units(c) ELSE x.k = "inf"
PyLe(x, c) == IF IsFinite(x) THEN x.v <= Units(c) ELSE x.k = "-inf"
PyGe(x, c) == IF IsFinite(x) THEN x.v >= Units(c) ELSE x.k = "inf"
\* lo <= x <= hi
PyBetween(lo, x, hi) == PyGe(x, lo) /\ PyLe(x, hi)

(***************************************************************************)
(* agents/soil_agent.py                                                    *)
(***************************************************************************)
DRY_THRESHOLD == 30
OPTIMAL_MIN == 30
OPTIMAL_MAX == 60
OVERWATERED_THRESHOLD == 60

SOIL_STATES == [dry |-> "Dry", optimal |-> "Optimal", overwatered |-> "Overwatered"]

\* The outcome of a call: a returned value or a raised exception.
Return(x) == [ok |-> TRUE, val |-> x]
Raise(e) == [ok |-> FALSE, exc |-> e]

\* SoilAnalysisAgent.__init__ with the lower end of the range left out.
SoilAnalysisAgent_init_open(soil_moisture) ==
    IF ~IsNumeric(soil_moisture)
    THEN Raise("ValueError")
    ELSE IF ~(PyGt(soil_moisture, 0) /\ PyLe(soil_moisture, 100))
    THEN Raise("ValueError")
    ELSE Return([soil_moisture |-> soil_moisture])

\* SoilAnalysisAgent.__init__(soil_moisture).
SoilAnalysisAgent_init(soil_moisture) ==
    IF ~IsNumeric(soil_moisture)
    THEN Raise("ValueError")
    ELSE IF ~PyBetween(0, soil_moisture, 100)
    THEN Raise("ValueError")
    ELSE Return([soil_moisture |-> soil_moisture])

\* _classify_soil with the dry threshold owned by the Dry bucket.
classify_soil_inclusive(self) ==
    IF PyLe(self.soil_moisture, DRY_THRESHOLD)
    THEN SOIL_STATES["dry"]
    ELSE IF PyBetween(OPTIMAL_MIN, self.soil_moisture, OPTIMAL_MAX)
    THEN SOIL_STATES["optimal"]
    ELSE SOIL_STATES["overwatered"]

\* SoilAnalysisAgent._classify_soil()
classify_soil(self) ==
    IF PyLt(self.soil_moisture, DRY_THRESHOLD)
    THEN SOIL_STATES["dry"]
    ELSE IF PyBetween(OPTIMAL_MIN, self.soil_moisture, OPTIMAL_MAX)
    THEN SOIL_STATES["optimal"]
    ELSE SOIL_STATES["overwatered"]

\* The recommendation is a fixed template per classification with the
\* moisture value interpolated; it is held as the template and the value.
get_recommendation(self, classification) ==
    IF classification = "Dry"
    THEN [template |-> "IRRIGATION NEEDED", moisture |-> self.soil_moisture]
    ELSE IF classification = "Optimal"
    THEN [template |-> "CONDITIONS NORMAL", moisture |-> self.soil_moisture]
    ELSE IF classification = "Overwatered"
    THEN [template |-> "REDUCE WATERING", moisture |-> self.soil_moisture]
    ELSE [template |-> "Unknown condition"]

\* _determine_urgency with 15 and 80 counted as extreme.
determine_urgency_inclusive(self, classification) ==
    IF classification = "Optimal"
    THEN "Low"
    ELSE IF classification = "Dry"
    THEN (IF PyLe(self.soil_moisture, 15) THEN "High" ELSE "Medium")
    ELSE (IF PyGe(self.soil_moisture, 80) THEN "High" ELSE "Medium")

\* SoilAnalysisAgent._determine_urgency(classification)
determine_urgency(self, classification) ==
    IF classification = "Optimal"
    THEN "Low"
    ELSE IF classification = "Dry"
    THEN (IF PyLt(self.soil_moisture, 15) THEN "High" ELSE "Medium")
    ELSE (IF PyGt(self.soil_moisture, 80) THEN "High" ELSE "Medium")

\* analyze() raising the urgency of a repeated call.
analyze_escalating(self) ==
    [soil_moisture |-> self.soil_moisture,
     classification |-> classify_soil(self),
     recommendation |-> get_recommendation(self, classify_soil(self)),
     urgency |-> IF calls > 0 THEN "High"
                 ELSE determine_urgency(self, classify_soil(self)),
     status |-> TRUE]

\* analyze() echoing the classification threshold instead of its input.
analyze_no_echo(self) ==
    [soil_moisture |-> PyInt(DRY_THRESHOLD),
     classification |-> classify_soil(self),
     recommendation |-> get_recommendation(self, classify_soil(self)),
     urgency |-> determine_urgency(self, classify_soil(self)),
     status |-> TRUE]

\* SoilAnalysisAgent.analyze(): the dictionary it returns.  It assigns to no
\* attribute of self.
analyze(self) ==
    LET classification == classify_soil(self)
        recommendation == get_recommendation(self, classification)
        urgency == determine_urgency(self, classification)
    IN  [soil_moisture |-> self.soil_moisture,
         classification |-> classification,
         recommendation |-> recommendation,
         urgency |-> urgency,
         status |-> TRUE]

(***************************************************************************)
(* Python built-ins the reading source uses.                               *)
(***************************************************************************)
\* The exception classes in play and the classes each one is an instance of.
Bases(e) ==
    CASE e = "ConnectTimeout" -> {"ConnectTimeout", "ConnectionError", "Timeout", "Exception"}
      [] e = "ReadTimeout" -> {"ReadTimeout", "Timeout", "Exception"}
      [] e = "JSONDecodeError" -> {"JSONDecodeError", "ValueError", "Exception"}
      [] OTHER -> {e, "Exception"}

IsInstance(e, class) == class \in Bases(e)

\* not x
Falsy(x) ==
    \/ x.t = "NoneType"
    \/ x.t = "text" /\ x.text = ""
    \/ x.t = "str" /\ x.s = <<>>
    \/ x.t = "list" /\ x.items = <<>>
    \/ x.t \in {"int", "bool"} /\ x.v = 0
    \/ x.t = "float" /\ x.k = "fin" /\ x.v = 0

\* A key a dictionary does not hold.
Absent == [t |-> "absent"]

\* d.get(key)
DictGet(d, key) == IF d[key] = Absent THEN PyNone ELSE d[key]

\* x is None or x == ''
NoneOrEmpty(x) == x = PyNone \/ (x.t = "str" /\ x.s = <<>>)

Digits == {"0", "1", "2", "3", "4", "5", "6", "7", "8", "9"}

DigitVal(c) ==
    CASE c = "0" -> 0 [] c = "1" -> 1 [] c = "2" -> 2 [] c = "3" -> 3 [] c = "4" -> 4
      [] c = "5" -> 5 [] c = "6" -> 6 [] c = "7" -> 7 [] c = "8" -> 8 [] c = "9" -> 9

\* s.strip() for the blank character.
RECURSIVE LStrip(_)
LStrip(s) == IF s # <<>> /\ Head(s) = " " THEN LStrip(Tail(s)) ELSE s

RECURSIVE RStrip(_)
RStrip(s) ==
    IF s # <<>> /\ s[Len(s)] = " " THEN RStrip(SubSeq(s, 1, Len(s) - 1)) ELSE s

Strip(s) == RStrip(LStrip(s))

\* The position of the first "." of s, or 0.
RECURSIVE DotAt(_, _)
DotAt(s, i) ==
    IF i > Len(s) THEN 0 ELSE IF s[i] = "." THEN i ELSE DotAt(s, i + 1)

\* The value of a sequence of digits.
RECURSIVE DigitsVal(_)
DigitsVal(s) ==
    IF s = <<>> THEN 0
    ELSE 10 * DigitsVal(SubSeq(s, 1, Len(s) - 1)) + DigitVal(s[Len(s)])

AllDigits(s) == \A i \in 1..Len(s) : s[i] \in Digits

\* An unsigned decimal literal: digits, optionally one ".", at least one digit.
IsDecimal(u) ==
    LET d == DotAt(u, 1)
    IN  IF d = 0
        THEN u # <<>> /\ AllDigits(u)
        ELSE /\ AllDigits(SubSeq(u, 1, d - 1))
             /\ AllDigits(SubSeq(u, d + 1, Len(u)))
             /\ Len(u) > 1

\* The value of an unsigned decimal literal, in tenths.  The literals of the
\* model carry at most one fractional digit.
DecimalVal(u) ==
    LET d == DotAt(u, 1)
    IN  IF d = 0
        THEN Units(DigitsVal(u))
        ELSE Units(DigitsVal(SubSeq(u, 1, d - 1)))
             + (IF d < Len(u) THEN DigitVal(u[d + 1]) ELSE 0)

\* float(s) for a string s: blanks stripped, an optional sign, then "nan",
\* "inf", "infinity" or a decimal literal; anything else is a ValueError.
ParseFloat(s) ==
    LET b == Strip(s)
        signed == b # <<>> /\ Head(b) \in {"-", "+"}
        neg == b # <<>> /\ Head(b) = "-"
        u == IF signed THEN Tail(b) ELSE b
    IN  IF u = <<"n", "a", "n">>
        THEN Return(PyNaN)
        ELSE IF u \in {<<"i", "n", "f">>, <<"i", "n", "f", "i", "n", "i", "t", "y">>}
        THEN Return(IF neg THEN PyNegInf ELSE PyInf)
        ELSE IF IsDecimal(u)
        THEN Return(PyFloat(IF neg THEN 0 - DecimalVal(u) ELSE DecimalVal(u)))
        ELSE Raise("ValueError")

\* float(x)
float(x) ==
    IF x.t = "str" THEN ParseFloat(x.s)
    ELSE IF x.t = "float" THEN Return(x)
    ELSE IF x.t \in {"int", "bool"} THEN Return(PyFloat(x.v))
    ELSE Raise("TypeError")

(***************************************************************************)
(* iot_integration/thingspeak_api.py                                       *)
(***************************************************************************)
\* ThingSpeakAPI.__init__(): reads the two environment variables.
ThingSpeakAPI_init(environ) ==
    LET channel_id == environ.THINGSPEAK_CHANNEL_ID
        read_key == environ.THINGSPEAK_READ_KEY
    IN  IF Falsy(channel_id) \/ Falsy(read_key)
        THEN Raise("ValueError")
        ELSE Return([channel_id |-> channel_id, read_key |-> read_key])

\* The defaults of the optional fields.
DEFAULT_TEMPERATURE == Units(25)
DEFAULT_HUMIDITY == Units(60)

\* _parse_feed_fields without the range check of the soil moisture.
validate_fields_unchecked_moisture(sm, te, hu, timestamp) ==
    IF ~sm.ok THEN sm
    ELSE IF ~te.ok THEN te
    ELSE IF ~hu.ok THEN hu
    ELSE IF ~PyBetween(-50, te.val, 60) THEN Raise("ValueError")
    ELSE IF ~PyBetween(0, hu.val, 100) THEN Raise("ValueError")
    ELSE Return([soil_moisture |-> sm.val,
                 temperature |-> te.val,
                 humidity |-> hu.val,
                 timestamp |-> timestamp,
                 success |-> TRUE])

\* _parse_feed_fields without the range check of the temperature.
validate_fields_unchecked_temperature(sm, te, hu, timestamp) ==
    IF ~sm.ok THEN sm
    ELSE IF ~te.ok THEN te
    ELSE IF ~hu.ok THEN hu
    ELSE IF ~PyBetween(0, sm.val, 100) THEN Raise("ValueError")
    ELSE IF ~PyBetween(0, hu.val, 100) THEN Raise("ValueError")
    ELSE Return([soil_moisture |-> sm.val,
                 temperature |-> te.val,
                 humidity |-> hu.val,
                 timestamp |-> timestamp,
                 success |-> TRUE])

\* The range validation and the returned dictionary of _parse_feed_fields,
\* given the outcomes of the three conversions.  The conversions run in the
\* order soil moisture, temperature, humidity; the first to raise ends the
\* try block.
validate_fields(sm, te, hu, timestamp) ==
    IF ~sm.ok THEN sm
    ELSE IF ~te.ok THEN te
    ELSE IF ~hu.ok THEN hu
    ELSE IF ~PyBetween(0, sm.val, 100) THEN Raise("ValueError")
    ELSE IF ~PyBetween(-50, te.val, 60) THEN Raise("ValueError")
    ELSE IF ~PyBetween(0, hu.val, 100) THEN Raise("ValueError")
    ELSE Return([soil_moisture |-> sm.val,
                 temperature |-> te.val,
                 humidity |-> hu.val,
                 timestamp |-> timestamp,
                 success |-> TRUE])

\* The conversions of _parse_feed_fields, with the defaults of the optional
\* fields.
\* The temperature conversion defaulting only a missing key, not an empty
\* string.
convert_temperature_none_only(temperature) ==
    IF temperature = PyNone
    THEN Return(PyFloat(DEFAULT_TEMPERATURE))
    ELSE float(temperature)

convert_temperature(temperature) ==
    IF NoneOrEmpty(temperature)
    THEN Return(PyFloat(DEFAULT_TEMPERATURE))
    ELSE float(temperature)

convert_humidity(humidity) ==
    IF NoneOrEmpty(humidity)
    THEN Return(PyFloat(DEFAULT_HUMIDITY))
    ELSE float(humidity)

convert_fields(soil_moisture, temperature, humidity, timestamp) ==
    IF NoneOrEmpty(soil_moisture)
    THEN Raise("ValueError")
    ELSE validate_fields(float(soil_moisture),
                         convert_temperature(temperature),
                         convert_humidity(humidity),
                         timestamp)

\* The try block of _parse_feed_fields.  A feed that is no dictionary has no
\* get().
parse_feed_fields_try(feed) ==
    IF feed.t # "dict"
    THEN Raise("AttributeError")
    ELSE convert_fields(DictGet(feed, "field1"),
                        DictGet(feed, "field2"),
                        DictGet(feed, "field3"),
                        DictGet(feed, "created_at"))

\* The except clause of _parse_feed_fields: a ValueError or TypeError of the
\* try block is raised again as a ValueError.
parse_feed_fields_except(r) ==
    IF r.ok THEN r
    ELSE IF IsInstance(r.exc, "ValueError") \/ IsInstance(r.exc, "TypeError")
    THEN Raise("ValueError")
    ELSE r

\* ThingSpeakAPI._parse_feed_fields(feed)
parse_feed_fields(feed) == parse_feed_fields_except(parse_feed_fields_try(feed))

\* data['feeds'][0]
first_feed(feeds) ==
    IF feeds.t = "list" THEN Return(feeds.items[1])
    ELSE IF feeds.t = "str" THEN Return(PyStr(<<feeds.s[1]>>))
    ELSE IF feeds.t = "dict" THEN Raise("KeyError")
    ELSE Raise("TypeError")

\* parse_feed_fields of the feed that data['feeds'][0] gave.
parse_first_feed(f) == IF f.ok THEN parse_feed_fields(f.val) ELSE f

\* The try block of fetch_latest_data from the decoded document on.
fetch_from_data(data) ==
    IF data.t # "dict"
    THEN Raise("AttributeError")
    ELSE IF Falsy(DictGet(data, "feeds"))
    THEN Raise("ValueError")
    ELSE parse_first_feed(first_feed(data["feeds"]))

\* The try block of fetch_latest_data, given what requests.get() does.
fetch_latest_data_try(self, reply) ==
    IF reply.net # "response"
    THEN Raise(reply.net)
    ELSE IF reply.status >= 400 /\ reply.status < 600
    THEN Raise("HTTPError")
    ELSE IF reply.body.json = "invalid"
    THEN Raise("JSONDecodeError")
    ELSE fetch_from_data(reply.body.data)

\* fetch_latest_data without its last clause, except Exception.
fetch_latest_data_except_narrow(r) ==
    IF r.ok THEN r
    ELSE IF IsInstance(r.exc, "Timeout") THEN Return(PyNone)
    ELSE IF IsInstance(r.exc, "ConnectionError") THEN Return(PyNone)
    ELSE IF IsInstance(r.exc, "HTTPError") THEN Return(PyNone)
    ELSE IF IsInstance(r.exc, "ValueError") THEN Return(PyNone)
    ELSE r

\* The except clauses of fetch_latest_data: every exception of the try block
\* is handled by returning None.
fetch_latest_data_except(r) ==
    IF r.ok THEN r
    ELSE IF IsInstance(r.exc, "Timeout") THEN Return(PyNone)
    ELSE IF IsInstance(r.exc, "ConnectionError") THEN Return(PyNone)
    ELSE IF IsInstance(r.exc, "HTTPError") THEN Return(PyNone)
    ELSE IF IsInstance(r.exc, "ValueError") THEN Return(PyNone)
    ELSE IF IsInstance(r.exc, "Exception") THEN Return(PyNone)
    ELSE r

\* ThingSpeakAPI.fetch_latest_data()
fetch_latest_data(self, reply) ==
    fetch_latest_data_except(fetch_latest_data_try(self, reply))

\* The try block of get_sensor_data.
get_sensor_data_try(api, reply) ==
    IF api.ok THEN fetch_latest_data(api.val, reply) ELSE api

\* The except clause of get_sensor_data.
get_sensor_data_except(r) ==
    IF r.ok THEN r
    ELSE IF IsInstance(r.exc, "ValueError") THEN Return(PyNone)
    ELSE r

\* get_sensor_data()
get_sensor_data(environ, reply) ==
    get_sensor_data_except(get_sensor_data_try(ThingSpeakAPI_init(environ), reply))

(***************************************************************************)
(* dashboard/views.py                                                      *)
(***************************************************************************)
\* The demo reading flagged as a substitute.
DemoData_flagged ==
    [soil_moisture |-> PyFloat(450),
     temperature |-> PyFloat(255),
     humidity |-> PyFloat(650),
     timestamp |-> Text("Demo Data (Not Real-time)"),
     success |-> FALSE]

\* The demo reading dashboard_view substitutes.
DemoData ==
    [soil_moisture |-> PyFloat(450),
     temperature |-> PyFloat(255),
     humidity |-> PyFloat(650),
     timestamp |-> Text("Demo Data (Not Real-time)"),
     success |-> TRUE]

\* The context dashboard_view starts from.
EmptyContext ==
    [sensor_data |-> PyNone,
     soil_analysis |-> PyNone,
     error_message |-> PyNone,
     data_available |-> FALSE]

\* The context of the except clauses, from the context built so far.
HandleError(context, exc) ==
    IF IsInstance(exc, "ValueError")
    THEN [context EXCEPT !.error_message = Text("Validation Error")]
    ELSE [context EXCEPT !.error_message = Text("Unexpected Error")]

\* The demo branch without the analysis of the demo reading.
analyze_demo_skipped(context, a) == context

\* The agent's part of dashboard_view: the analysis goes into the context, or
\* the constructor's exception goes to the except clauses.
analyze_demo(context, a) ==
    IF a.ok
    THEN [context EXCEPT !.soil_analysis = analyze(a.val)]
    ELSE HandleError(context, a.exc)

analyze_reading(context, a) ==
    IF a.ok
    THEN [context EXCEPT !.soil_analysis = analyze(a.val), !.data_available = TRUE]
    ELSE HandleError(context, a.exc)

\* dashboard_view from the outcome of get_sensor_data() on.
dashboard_view_with(sensor_data) ==
    IF ~sensor_data.ok
    THEN HandleError(EmptyContext, sensor_data.exc)
    ELSE IF sensor_data.val = PyNone
    THEN analyze_demo([EmptyContext EXCEPT !.error_message = Text("DEMO MODE"),
                                           !.sensor_data = DemoData,
                                           !.data_available = TRUE],
                      SoilAnalysisAgent_init(DemoData.soil_moisture))
    ELSE IF ~sensor_data.val.success
    THEN [EmptyContext EXCEPT
             !.error_message = Text("Sensor data fetch returned unsuccessful status")]
    ELSE analyze_reading([EmptyContext EXCEPT !.sensor_data = sensor_data.val],
                         SoilAnalysisAgent_init(sensor_data.val.soil_moisture))

\* dashboard_view(request): the context it renders.
dashboard_view(environ, reply) == dashboard_view_with(get_sensor_data(environ, reply))

(***************************************************************************)
(* Inputs and actions.                                                     *)
(***************************************************************************)
agentVars == <<ctorArg, ctorExc, agent, calls, firstResult, lastResult>>
dashVars == <<osEnviron, netReply, fetched, rendered>>
vars == <<agentVars, dashVars>>

Unset == [t |-> "unset"]
NoAgent == [t |-> "none"]
NoResult == [t |-> "none"]
NoRequest == [t |-> "none"]

\* The arguments a caller passes to the constructor.
CtorArgs ==
    {PyFloat(v) : v \in (0 - Margin)..(Units(100) + Margin)}
    \cup {PyInt(n) : n \in {-1, 0, 14, 15, 29, 30, 31, 59, 60, 61, 80, 81, 100, 101}}
    \cup {PyBool(TRUE), PyBool(FALSE), PyNaN, PyInf, PyNegInf}
    \cup {PyNone, PyList(<<>>), PyStr(<<"4", "5">>), PyStr(<<>>)}

\* What a ThingSpeak feed holds in field1 (soil moisture), field2
\* (temperature) and field3 (humidity): a missing key, null, a string, or a
\* value of another JSON type.
Field1Values ==
    {Absent, PyNone, PyList(<<>>), PyBool(TRUE), PyFloat(455)}
    \cup {PyStr(s) : s \in {<<>>,
                            <<"a", "b", "c">>,
                            <<"n", "a", "n">>,
                            <<"-", "0", ".", "1">>,
                            <<"0">>,
                            <<"1", "4", ".", "9">>,
                            <<" ", "4", "5", " ">>,
                            <<"1", "0", "0">>,
                            <<"1", "0", "0", ".", "1">>}}

Field2Values ==
    {Absent, PyNone, PyList(<<>>), PyInt(0)}
    \cup {PyStr(s) : s \in {<<>>,
                            <<"1", ".", "2", ".", "3">>,
                            <<"i", "n", "f">>,
                            <<"-", "5", "0">>,
                            <<"-", "5", "0", ".", "1">>,
                            <<"+", "3", "1", ".">>,
                            <<"6", "0">>,
                            <<"6", "0", ".", "1">>}}

Field3Values ==
    {Absent, PyNone, PyBool(FALSE)}
    \cup {PyStr(s) : s \in {<<>>,
                            <<"-">>,
                            <<"-", "i", "n", "f">>,
                            <<"-", "1">>,
                            <<".", "5">>,
                            <<"7", "2", ".", "5">>,
                            <<"1", "0", "0">>,
                            <<"1", "0", "1">>}}

Feeds ==
    {[t |-> "dict", field1 |-> a, field2 |-> b, field3 |-> c,
      created_at |-> Text("2026-01-01T00:00:00Z")] :
        a \in Field1Values, b \in Field2Values, c \in Field3Values}

\* The JSON documents a response body decodes to.
Datas ==
    {PyInt(-1), PyList(<<>>)}
    \cup {[t |-> "dict", feeds |-> f] :
            f \in {Absent, PyNone, PyList(<<>>), PyStr(<<"x">>), PyInt(5)}}
    \cup {[t |-> "dict", feeds |-> PyList(<<feed>>)] :
            feed \in Feeds \cup {PyNone, PyStr(<<"x">>)}}

InvalidJSON == [json |-> "invalid"]
Json(data) == [json |-> "valid", data |-> data]
Response(status, body) == [net |-> "response", status |-> status, body |-> body]

\* What requests.get() does: it raises, or it returns a response.
Replies ==
    {[net |-> e] : e \in {"Timeout", "ConnectTimeout", "ReadTimeout",
                          "ConnectionError", "TooManyRedirects"}}
    \cup {Response(st, InvalidJSON) : st \in {200, 400, 404, 500}}
    \cup {Response(st, Json(PyInt(-1))) : st \in {400, 404, 500}}
    \cup {Response(200, Json(d)) : d \in Datas}

\* What os.getenv() finds for the two variables.
Environs ==
    {[THINGSPEAK_CHANNEL_ID |-> c, THINGSPEAK_READ_KEY |-> k] :
        c \in {PyNone, Text(""), Text("3245976")},
        k \in {PyNone, Text(""), Text("READKEY")}}

InitAgent ==
    /\ ctorArg = Unset
    /\ ctorExc = "none"
    /\ agent = NoAgent
    /\ calls = 0
    /\ firstResult = NoResult
    /\ lastResult = NoResult

InitDashboard ==
    /\ osEnviron = NoRequest
    /\ netReply = NoRequest
    /\ fetched = NoRequest
    /\ rendered = NoRequest

\* agent = SoilAnalysisAgent(x)
Construct(x) ==
    /\ ctorArg = Unset
    /\ LET r == SoilAnalysisAgent_init(x)
       IN  /\ ctorArg' = x
           /\ ctorExc' = IF r.ok THEN "none" ELSE r.exc
           /\ agent' = IF r.ok THEN r.val ELSE NoAgent
    /\ UNCHANGED <<calls, firstResult, lastResult>>
    /\ UNCHANGED dashVars

\* agent.analyze()
Analyze ==
    /\ agent # NoAgent
    /\ calls < MaxCalls
    /\ LET r == analyze(agent)
       IN  /\ lastResult' = r
           /\ firstResult' = IF calls = 0 THEN r ELSE firstResult
    /\ calls' = calls + 1
    /\ UNCHANGED <<ctorArg, ctorExc, agent>>
    /\ UNCHANGED dashVars

\* The instance, or the failed construction, goes out of scope.
Discard ==
    /\ ctorArg # Unset
    /\ ctorArg' = Unset
    /\ ctorExc' = "none"
    /\ agent' = NoAgent
    /\ calls' = 0
    /\ firstResult' = NoResult
    /\ lastResult' = NoResult
    /\ UNCHANGED dashVars

\* What requests.get() can do under environment env: nothing is sent when
\* the client cannot be constructed.
RepliesUnder(env) == IF ThingSpeakAPI_init(env).ok THEN Replies ELSE {NoRequest}

\* One request to dashboard_view, under environment env and with requests.get()
\* doing rep.
DashboardView(env, rep) ==
    /\ rendered = NoRequest
    /\ osEnviron' = env
    /\ netReply' = rep
    /\ fetched' = get_sensor_data(env, rep)
    /\ rendered' = dashboard_view(env, rep)
    /\ UNCHANGED agentVars

\* The response is sent; the reading and the context go out of scope.
Finish ==
    /\ rendered # NoRequest
    /\ osEnviron' = NoRequest
    /\ netReply' = NoRequest
    /\ fetched' = NoRequest
    /\ rendered' = NoRequest
    /\ UNCHANGED agentVars

NextAgent ==
    \/ \E x \in CtorArgs : Construct(x)
    \/ Analyze
    \/ Discard

NextDashboard ==
    \/ \E env \in Environs : \E rep \in RepliesUnder(env) : DashboardView(env, rep)
    \/ Finish

Init == InitAgent /\ InitDashboard
Next == NextAgent \/ NextDashboard

\* The classifier used on its own.
SpecAgent == Init /\ [][NextAgent]_vars
\* The dashboard serving requests.
SpecDashboard == Init /\ [][NextDashboard]_vars
Spec == Init /\ [][Next]_vars

(***************************************************************************)
(* Properties of the classifier, checked under SpecAgent.                  *)
(***************************************************************************)
\* The moisture the instance was constructed with, in tenths.
Moisture == ctorArg.v

Analyzed == agent # NoAgent /\ calls > 0

\* C1: for every accepted moisture m, analyze() classifies 'Dry' exactly when
\* m < 30, 'Optimal' exactly when 30 <= m <= 60 and 'Overwatered' exactly when
\* m > 60; 30 and 60 are both 'Optimal'.
C1_Classification ==
    Analyzed =>
        /\ lastResult.classification \in {"Dry", "Optimal", "Overwatered"}
        /\ lastResult.classification = "Dry" <=> Moisture < 300
        /\ lastResult.classification = "Optimal" <=> (300 <= Moisture /\ Moisture <= 600)
        /\ lastResult.classification = "Overwatered" <=> Moisture > 600

\* The boundary 30.0 has been classified, as 'Optimal'.
C1_Witness ==
    /\ Analyzed
    /\ ctorArg = PyFloat(300)
    /\ lastResult.classification = "Optimal"

\* C2: the urgency of analyze() is 'Low' for 30 <= m <= 60, 'High' for m < 15,
\* 'Medium' for 15 <= m < 30 and for 60 < m <= 80, and 'High' for m > 80.
C2_Urgency ==
    Analyzed =>
        lastResult.urgency =
            IF Moisture < 150 THEN "High"
            ELSE IF Moisture < 300 THEN "Medium"
            ELSE IF Moisture <= 600 THEN "Low"
            ELSE IF Moisture <= 800 THEN "Medium"
            ELSE "High"

\* The boundary 80.0 has been analyzed, with urgency 'Medium'.
C2_Witness ==
    /\ Analyzed
    /\ ctorArg = PyFloat(800)
    /\ lastResult.urgency = "Medium"

\* The argument is a number (an int, a float or a bool, which is an int) and lies
\* in the closed interval [0, 100]; NaN and the infinities lie outside it.
ArgAccepted ==
    /\ ctorArg.t \in {"int", "float", "bool"}
    /\ ctorArg.t = "float" => ctorArg.k = "fin"
    /\ 0 <= ctorArg.v
    /\ ctorArg.v <= 1000

\* C3: constructing with a non-numeric value or with a number outside
\* [0, 100] raises ValueError and produces no agent and no assessment;
\* constructing with a number in [0, 100], 0 and 100 included, succeeds and
\* stores the value.
C3_Constructor ==
    ctorArg # Unset =>
        IF ArgAccepted
        THEN ctorExc = "none" /\ agent = [soil_moisture |-> ctorArg]
        ELSE ctorExc = "ValueError" /\ agent = NoAgent /\ lastResult = NoResult

\* A construction with 100.1 has failed.
C3_Witness ==
    /\ ctorArg = PyFloat(1001)
    /\ ctorExc = "ValueError"
    /\ agent = NoAgent

C5_Original ==
    Analyzed =>
        /\ DOMAIN lastResult =
               {"soil_moisture", "classification", "recommendation", "urgency", "valid"}
        /\ lastResult.soil_moisture = ctorArg
        /\ lastResult.valid = TRUE

\* C5 as amended: the structure analyze() returns has exactly the keys
\* soil_moisture, classification, recommendation, urgency and status, with
\* soil_moisture the constructor's value and status true.
C5_Keys ==
    Analyzed =>
        /\ DOMAIN lastResult =
               {"soil_moisture", "classification", "recommendation", "urgency", "status"}
        /\ lastResult.soil_moisture = ctorArg
        /\ lastResult.status = TRUE

\* An instance holding 60.1 has been analyzed and echoes 60.1.
C5_Witness ==
    /\ Analyzed
    /\ ctorArg = PyFloat(601)
    /\ lastResult.soil_moisture = PyFloat(601)

(***************************************************************************)
(* Properties of the reading source and the dashboard, checked under       *)
(* SpecDashboard.                                                          *)
(***************************************************************************)
\* A request has been served.
Requested == rendered # NoRequest

\* get_sensor_data() returned None, or returned a reading.
Unavailable == Requested /\ fetched.ok /\ fetched.val = PyNone
GotReading == Requested /\ fetched.ok /\ fetched.val # PyNone

\* Both environment variables are set and not empty.
EnvSet ==
    /\ osEnviron.THINGSPEAK_CHANNEL_ID \notin {PyNone, Text("")}
    /\ osEnviron.THINGSPEAK_READ_KEY \notin {PyNone, Text("")}

\* The request was answered with a success status and a JSON object whose
\* feeds is a non-empty list of which the first entry is an object.
HasFeed ==
    /\ Requested
    /\ netReply # NoRequest
    /\ netReply.net = "response"
    /\ netReply.status < 400
    /\ netReply.body.json = "valid"
    /\ netReply.body.data.t = "dict"
    /\ netReply.body.data.feeds.t = "list"
    /\ netReply.body.data.feeds.items # <<>>
    /\ netReply.body.data.feeds.items[1].t = "dict"

LatestFeed == netReply.body.data.feeds.items[1]

\* A field that is absent (no key, or null) or empty.
Missing(x) == x \in {Absent, PyNone, PyStr(<<>>)}

\* A finite number between lo and hi, in tenths.
Within(x, lo, hi) == x.t = "float" /\ x.k = "fin" /\ lo <= x.v /\ x.v <= hi

\* A field that is present and converts to a number between lo and hi, and one
\* that is present and converts to a number that is not.
Valid(x, lo, hi) == ~Missing(x) /\ float(x).ok /\ Within(float(x).val, lo, hi)
Outside(x, lo, hi) == ~Missing(x) /\ float(x).ok /\ ~Within(float(x).val, lo, hi)

\* Every field of the latest feed validates, the optional ones when present.
FieldsValid ==
    /\ Valid(LatestFeed.field1, 0, 1000)
    /\ Missing(LatestFeed.field2) \/ Valid(LatestFeed.field2, -500, 600)
    /\ Missing(LatestFeed.field3) \/ Valid(LatestFeed.field3, 0, 1000)

\* C6: whenever get_sensor_data() returns None, dashboard_view renders the
\* demo reading (45.0, 25.5, 65.0) as sensor_data, a non-empty warning as
\* error_message, data_available true, and the assessment of 45.0 ('Optimal',
\* 'Low') as soil_analysis.
C6_DemoContext ==
    Unavailable =>
        /\ rendered.sensor_data # PyNone
        /\ rendered.sensor_data.soil_moisture = PyFloat(450)
        /\ rendered.sensor_data.temperature = PyFloat(255)
        /\ rendered.sensor_data.humidity = PyFloat(650)
        /\ rendered.error_message # PyNone
        /\ rendered.error_message.text # ""
        /\ rendered.data_available = TRUE
        /\ rendered.soil_analysis # PyNone
        /\ rendered.soil_analysis.soil_moisture = PyFloat(450)
        /\ rendered.soil_analysis.classification = "Optimal"
        /\ rendered.soil_analysis.urgency = "Low"

\* A request whose poll timed out has been rendered with data available.
C6_Witness ==
    /\ Unavailable
    /\ netReply = [net |-> "Timeout"]
    /\ rendered.data_available = TRUE

\* C7 as stated: the flag of the reading in the context is true when the reading
\* came from the reading source and false when it is the substituted demo
\* reading.
C7_Original ==
    (Requested /\ rendered.sensor_data # PyNone) =>
        (rendered.sensor_data.success = TRUE <=> GotReading)

\* C7 as amended: the flag of the reading in the context is true both for a
\* reading of the reading source and for the substituted demo reading; the
\* substitute is told apart by the warning in error_message, not by the flag.
C7_FlagAlwaysTrue ==
    (Requested /\ rendered.sensor_data # PyNone) =>
        /\ rendered.sensor_data.success = TRUE
        /\ GotReading \/ Unavailable
        /\ rendered.error_message # PyNone <=> Unavailable

\* The demo reading has been placed in a context after an empty channel.
C7_Witness ==
    /\ Unavailable
    /\ HasFeed = FALSE
    /\ netReply # NoRequest
    /\ netReply.net = "response"
    /\ rendered.sensor_data # PyNone
    /\ rendered.sensor_data.timestamp = Text("Demo Data (Not Real-time)")
    /\ rendered.sensor_data.success = TRUE

\* C8: every reading returned has soil_moisture in [0, 100], temperature in
\* [-50, 60] and humidity in [0, 100], and a feed with a field that converts to
\* a value outside its range yields no reading.
C8_Ranges ==
    /\ GotReading =>
        /\ Within(fetched.val.soil_moisture, 0, 1000)
        /\ Within(fetched.val.temperature, -500, 600)
        /\ Within(fetched.val.humidity, 0, 1000)
    /\ (/\ HasFeed
        /\ \/ Outside(LatestFeed.field1, 0, 1000)
           \/ Outside(LatestFeed.field2, -500, 600)
           \/ Outside(LatestFeed.field3, 0, 1000))
       => Unavailable

\* A feed whose only fault is a temperature of 60.1 has yielded no reading.
C8_Witness ==
    /\ HasFeed
    /\ Valid(LatestFeed.field1, 0, 1000)
    /\ LatestFeed.field2 = PyStr(<<"6", "0", ".", "1">>)
    /\ Valid(LatestFeed.field3, 0, 1000)
    /\ Unavailable

\* C9: a reading carries the converted field1; its temperature is 25.0 when
\* field2 is absent or empty and the converted field2 otherwise; its humidity is
\* 60.0 when field3 is absent or empty and the converted field3 otherwise, each
\* independently of the other; a feed whose field1 is absent or empty yields
\* no reading.
C9_Defaults ==
    /\ GotReading =>
        /\ HasFeed
        /\ ~Missing(LatestFeed.field1)
        /\ fetched.val.soil_moisture = float(LatestFeed.field1).val
        /\ fetched.val.temperature =
               IF Missing(LatestFeed.field2) THEN PyFloat(250)
               ELSE float(LatestFeed.field2).val
        /\ fetched.val.humidity =
               IF Missing(LatestFeed.field3) THEN PyFloat(600)
               ELSE float(LatestFeed.field3).val
    /\ (HasFeed /\ Missing(LatestFeed.field1)) => Unavailable
    /\ (HasFeed /\ FieldsValid) => GotReading

\* A feed with an empty temperature and a humidity of 72.5 has yielded a
\* reading with temperature 25.0 and humidity 72.5.
C9_Witness ==
    /\ GotReading
    /\ LatestFeed.field2 = PyStr(<<>>)
    /\ LatestFeed.field3 = PyStr(<<"7", "2", ".", "5">>)
    /\ fetched.val.temperature = PyFloat(250)
    /\ fetched.val.humidity = PyFloat(725)

\* C10: get_sensor_data() raises nothing; it returns None when a variable of
\* the environment is missing, when the request times out, fails to connect or
\* is answered with an error status, when the response has no feeds, and when
\* a field is missing, unparsable or out of range; it returns a reading only
\* when the request succeeded and every field validated.
C10_NoEscape ==
    Requested =>
        /\ fetched.ok
        /\ ~EnvSet => fetched.val = PyNone
        /\ fetched.val # PyNone <=> (EnvSet /\ HasFeed /\ FieldsValid)

\* A success response whose document is no JSON object has been turned into
\* None.
C10_Witness ==
    /\ Requested
    /\ netReply = Response(200, Json(PyInt(-1)))
    /\ fetched = Return(PyNone)

\* C11: in dashboard_view the SoilAnalysisAgent constructor never fails: the
\* soil moisture of every reading that reaches it, real or demo, is a finite
\* number in [0, 100]; no context carries the 'Validation Error' or the
\* 'Unexpected Error' message; and data_available is true exactly when
\* soil_analysis is set.
C11_ConstructorNeverFails ==
    Requested =>
        /\ rendered.error_message \notin
               {Text("Validation Error"), Text("Unexpected Error")}
        /\ rendered.sensor_data # PyNone =>
               /\ rendered.sensor_data.soil_moisture.t \in {"int", "float", "bool"}
               /\ rendered.sensor_data.soil_moisture.t = "float" =>
                      rendered.sensor_data.soil_moisture.k = "fin"
               /\ 0 <= rendered.sensor_data.soil_moisture.v
               /\ rendered.sensor_data.soil_moisture.v <= 1000
        /\ rendered.data_available = TRUE <=> rendered.soil_analysis # PyNone

\* A real reading of exactly 100 has reached the constructor and been
\* analyzed.
C11_Witness ==
    /\ GotReading
    /\ LatestFeed.field1 = PyStr(<<"1", "0", "0">>)
    /\ rendered.sensor_data.soil_moisture = PyFloat(1000)
    /\ rendered.soil_analysis # PyNone
    /\ rendered.soil_analysis.classification = "Overwatered"
    /\ rendered.data_available = TRUE

====
